---- MODULE Spec2Model ----
(***************************************************************************)
(* rusteamid-cli (src/src/main.rs): conversion between the three forms of  *)
(* a SteamID (steamID64, steamID2, steamID3) and the command-line loop     *)
(* that reports them.                                                      *)
(*                                                                         *)
(* Machine integers are little-endian tuples of 16-bit limbs, so that a    *)
(* u64 keeps its 64 bits: a u8 is 1 limb, a u32 is 2 limbs, a u64 is 4.    *)
(* Strings are tuples of one-character strings.                            *)
(***************************************************************************)
EXTENDS Integers, Sequences, FiniteSets, TLC

VARIABLES args, i, pc, stdout, steam_type, steamid_64, steamid_object

vars == <<args, i, pc, stdout, steam_type, steamid_64, steamid_object>>

(***************************************************************************)
(* Rust's Result, Option and panics.                                       *)
(***************************************************************************)
Ok(v) == [ok |-> TRUE, val |-> v]
Err(e) == [ok |-> FALSE, err |-> e]
Some(v) == [some |-> TRUE, val |-> v]
None == [some |-> FALSE]
unwrap_or(r, d) == IF r.ok THEN r.val ELSE d
option_unwrap_or(o, d) == IF o.some THEN o.val ELSE d
\* The value of a call that returns v, and of a call that panics (unwrap on Err).
Returned(v) == [panicked |-> FALSE, val |-> v]
Panicked == [panicked |-> TRUE]

(***************************************************************************)
(* Fixed-width unsigned integers on 16-bit limbs.                          *)
(***************************************************************************)
Limb == 2^16

RECURSIVE BitAnd(_, _)
BitAnd(a, b) ==
    IF a = 0 \/ b = 0 THEN 0
    ELSE (a % 2) * (b % 2) + 2 * BitAnd(a \div 2, b \div 2)

RECURSIVE BitOr(_, _)
BitOr(a, b) ==
    IF a = 0 THEN b
    ELSE IF b = 0 THEN a
    ELSE (IF a % 2 = 1 \/ b % 2 = 1 THEN 1 ELSE 0) + 2 * BitOr(a \div 2, b \div 2)

LimbAt(a, j) == IF j >= 1 /\ j <= Len(a) THEN a[j] ELSE 0

\* a & b, a | b on integers of the same width
And(a, b) == [k \in 1..Len(a) |-> BitAnd(a[k], b[k])]
Or(a, b) == [k \in 1..Len(a) |-> BitOr(a[k], b[k])]

\* a >> n and a << n for n below the width; bits shifted out are dropped
Shr(a, n) ==
    LET q == n \div 16
        r == n % 16
    IN [k \in 1..Len(a) |->
           (LimbAt(a, k + q) \div 2^r) + (LimbAt(a, k + q + 1) % 2^r) * 2^(16 - r)]

Shl(a, n) ==
    LET q == n \div 16
        r == n % 16
    IN [k \in 1..Len(a) |->
           (LimbAt(a, k - q) % 2^(16 - r)) * 2^r + (LimbAt(a, k - q - 1) \div 2^(16 - r))]

\* u64::from(x), u32::from(x): widening to w limbs
From(x, w) == [k \in 1..w |-> LimbAt(x, k)]

\* u32::try_from(x), u8::try_from(x): narrowing, Err when the value does not fit
TryFrom(x, bits) ==
    LET w == (bits + 15) \div 16
        fits == /\ \A k \in (w + 1)..Len(x) : x[k] = 0
                /\ (bits % 16 # 0 => x[w] < 2^(bits % 16))
    IN IF fits THEN Ok([k \in 1..w |-> x[k]]) ELSE Err("TryFromIntError")

\* a * m + c for small m and c: the w low limbs and the carry out of them
RECURSIVE MulAdd(_, _, _)
MulAdd(a, m, c) ==
    IF a = <<>> THEN [val |-> <<>>, carry |-> c]
    ELSE LET t == a[1] * m + c
             rest == MulAdd(Tail(a), m, t \div Limb)
         IN [val |-> <<t % Limb>> \o rest.val, carry |-> rest.carry]

\* a divided by a small d: quotient and remainder
RECURSIVE DivMod(_, _)
DivMod(a, d) ==
    IF a = <<>> THEN [quot |-> <<>>, rem |-> 0]
    ELSE LET hi == DivMod(Tail(a), d)
             cur == hi.rem * Limb + a[1]
         IN [quot |-> <<cur \div d>> \o hi.quot, rem |-> cur % d]

IsZero(a) == \A k \in 1..Len(a) : a[k] = 0

(***************************************************************************)
(* Characters and decimal text.                                            *)
(***************************************************************************)
AsciiDigits == <<"0", "1", "2", "3", "4", "5", "6", "7", "8", "9">>

IsAsciiDigit(c) == \E d \in 1..10 : AsciiDigits[d] = c

DigitVal(c) == (CHOOSE d \in 1..10 : AsciiDigits[d] = c) - 1

\* A decimal digit outside ASCII (ARABIC-INDIC DIGIT THREE, U+0663): the regex
\* crate's \d is Unicode-aware and matches it, str::parse does not accept it.
ArabicIndicThree == "u0663"

\* regex \d
IsRegexDigit(c) == IsAsciiDigit(c) \/ c = ArabicIndicThree

\* An integer literal of the source, of w limbs, from its decimal digits
RECURSIVE Lit(_, _)
Lit(ds, w) ==
    IF ds = <<>> THEN [k \in 1..w |-> 0]
    ELSE MulAdd(Lit(SubSeq(ds, 1, Len(ds) - 1), w), 10, ds[Len(ds)]).val

\* format!("{}", x) of an unsigned integer
RECURSIVE to_string(_)
to_string(x) ==
    LET dm == DivMod(x, 10)
    IN IF IsZero(dm.quot) THEN <<AsciiDigits[dm.rem + 1]>>
       ELSE to_string(dm.quot) \o <<AsciiDigits[dm.rem + 1]>>

\* str::parse::<u64>() and its like, to w limbs: an optional '+', then one or
\* more ASCII digits, Err on overflow
RECURSIVE parse_digits(_, _)
parse_digits(s, acc) ==
    IF s = <<>> THEN Ok(acc)
    ELSE IF ~IsAsciiDigit(s[1]) THEN Err("InvalidDigit")
    ELSE LET r == MulAdd(acc, 10, DigitVal(s[1]))
         IN IF r.carry # 0 THEN Err("PosOverflow")
            ELSE parse_digits(Tail(s), r.val)

parse_uint(s, w) ==
    IF s = <<>> THEN Err("Empty")
    ELSE LET digits == IF s[1] = "+" THEN Tail(s) ELSE s
         IN IF digits = <<>> THEN Err("InvalidDigit")
            ELSE parse_digits(digits, [k \in 1..w |-> 0])

\* str::parse::<char>()
parse_char(s) == IF Len(s) = 1 THEN Ok(s[1]) ELSE Err("ParseCharError")

\* A small integer literal of the source, of w limbs
N(v, w) == [k \in 1..w |-> IF k = 1 THEN v ELSE 0]

(***************************************************************************)
(* The two grammars (main.rs lines 5-6), hand-matched.                     *)
(***************************************************************************)
STEAM_ == <<"S", "T", "E", "A", "M", "_">>

\* Regex::captures with ^STEAM_([0-5]):([01]):(\d+$)
captures_steamid2(s) ==
    IF /\ Len(s) >= 11
       /\ SubSeq(s, 1, 6) = STEAM_
       /\ s[7] \in {"0", "1", "2", "3", "4", "5"}
       /\ s[8] = ":"
       /\ s[9] \in {"0", "1"}
       /\ s[10] = ":"
       /\ \A k \in 11..Len(s) : IsRegexDigit(s[k])
    THEN Some(<<<<s[7]>>, <<s[9]>>, SubSeq(s, 11, Len(s))>>)
    ELSE None

\* Regex::captures with ^\[(.):([01]):(\d+)\]$ ('.' is any character but a line feed)
captures_steamid3(s) ==
    IF /\ Len(s) >= 7
       /\ s[1] = "["
       /\ s[2] # "\n"
       /\ s[3] = ":"
       /\ s[4] \in {"0", "1"}
       /\ s[5] = ":"
       /\ \A k \in 6..(Len(s) - 1) : IsRegexDigit(s[k])
       /\ s[Len(s)] = "]"
    THEN Some(<<<<s[2]>>, <<s[4]>>, SubSeq(s, 6, Len(s) - 1)>>)
    ELSE None

(***************************************************************************)
(* Account types.                                                          *)
(***************************************************************************)
\* account_type_to_char reading the chat flags 8 bits up instead of 12
account_type_to_char_shift8(account_type, instance) ==
    LET t == account_type[1]
        chat == And(Shr(option_unwrap_or(instance, N(0, 2)), 8), N(255, 2))
    IN CASE t = 0 -> "I"
         [] t = 1 -> "U"
         [] t = 2 -> "M"
         [] t = 3 -> "G"
         [] t = 4 -> "A"
         [] t = 5 -> "P"
         [] t = 6 -> "C"
         [] t = 7 -> "g"
         [] t = 8 -> (CASE chat = N(1, 2) -> "T"
                        [] chat = N(2, 2) -> "L"
                        [] chat = N(4, 2) -> "c"
                        [] OTHER -> "c")
         [] t = 10 -> "a"
         [] OTHER -> "I"

account_type_to_char(account_type, instance) ==
    LET t == account_type[1]
        chat == And(Shr(option_unwrap_or(instance, N(0, 2)), 12), N(255, 2))
    IN CASE t = 0 -> "I"
         [] t = 1 -> "U"
         [] t = 2 -> "M"
         [] t = 3 -> "G"
         [] t = 4 -> "A"
         [] t = 5 -> "P"
         [] t = 6 -> "C"
         [] t = 7 -> "g"
         [] t = 8 -> (CASE chat = N(1, 2) -> "T"
                        [] chat = N(2, 2) -> "L"
                        [] chat = N(4, 2) -> "c"
                        [] OTHER -> "c")
         [] t = 10 -> "a"
         [] OTHER -> "I"

\* from_char reading 'I' as ConsoleUser, the type to_char renders as 'I'
from_char_console_user(account_type) ==
    CASE account_type = "I" -> "ConsoleUser"
      [] account_type = "U" -> "Individual"
      [] account_type = "M" -> "Multiseat"
      [] account_type = "G" -> "GameServer"
      [] account_type = "A" -> "AnonGameServer"
      [] account_type = "P" -> "Pending"
      [] account_type = "C" -> "ContentServer"
      [] account_type = "g" -> "Clan"
      [] account_type = "c" -> "Chat"
      [] account_type = "T" -> "Chat"
      [] account_type = "L" -> "Chat"
      [] account_type = "a" -> "AnonUser"
      [] OTHER -> "Invalid"

from_char(account_type) ==
    CASE account_type = "I" -> "Invalid"
      [] account_type = "U" -> "Individual"
      [] account_type = "M" -> "Multiseat"
      [] account_type = "G" -> "GameServer"
      [] account_type = "A" -> "AnonGameServer"
      [] account_type = "P" -> "Pending"
      [] account_type = "C" -> "ContentServer"
      [] account_type = "g" -> "Clan"
      [] account_type = "c" -> "Chat"
      [] account_type = "T" -> "Chat"
      [] account_type = "L" -> "Chat"
      [] account_type = "a" -> "AnonUser"
      [] OTHER -> "Invalid"

\* the u32 code of an account type
to_int(self) ==
    CASE self = "Invalid" -> N(0, 2)
      [] self = "Individual" -> N(1, 2)
      [] self = "Multiseat" -> N(2, 2)
      [] self = "GameServer" -> N(3, 2)
      [] self = "AnonGameServer" -> N(4, 2)
      [] self = "Pending" -> N(5, 2)
      [] self = "ContentServer" -> N(6, 2)
      [] self = "Clan" -> N(7, 2)
      [] self = "Chat" -> N(8, 2)
      [] self = "ConsoleUser" -> N(9, 2)
      [] self = "AnonUser" -> N(10, 2)

(***************************************************************************)
(* Detection and the two string parsers.                                   *)
(***************************************************************************)
\* string_to_steamid_type taking every string of digits for a SteamID64
string_to_steamid_type_by_shape(steamid) ==
    IF steamid # <<>> /\ \A k \in 1..Len(steamid) : IsAsciiDigit(steamid[k])
    THEN Ok("SteamID64")
    ELSE IF captures_steamid2(steamid).some THEN Ok("SteamID2")
    ELSE IF captures_steamid3(steamid).some THEN Ok("SteamID3")
    ELSE Err("Unable to parse to any SteamID Format.")

string_to_steamid_type(steamid) ==
    IF parse_uint(steamid, 4).ok THEN Ok("SteamID64")
    ELSE IF captures_steamid2(steamid).some THEN Ok("SteamID2")
    ELSE IF captures_steamid3(steamid).some THEN Ok("SteamID3")
    ELSE Err("Unable to parse to any SteamID Format.")

\* steamid2_to_steamid64 without the base 76561197960265728
steamid2_to_steamid64_no_base(steamid2) ==
    LET captures == captures_steamid2(steamid2)
    IN IF ~captures.some THEN Panicked
       ELSE LET universe == unwrap_or(parse_uint(captures.val[1], 4), N(1, 4))
                auth_server == parse_uint(captures.val[2], 4)
                account_id == parse_uint(captures.val[3], 4)
            IN IF ~auth_server.ok \/ ~account_id.ok THEN Panicked
               ELSE Returned(Or(Or(Shl(universe, 56), auth_server.val),
                                Shl(account_id.val, 1)))

steamid2_to_steamid64(steamid2) ==
    LET captures == captures_steamid2(steamid2)
    IN IF ~captures.some THEN Panicked
       ELSE LET universe == unwrap_or(parse_uint(captures.val[1], 4), N(1, 4))
                auth_server == parse_uint(captures.val[2], 4)
                account_id == parse_uint(captures.val[3], 4)
            IN IF ~auth_server.ok \/ ~account_id.ok THEN Panicked
               ELSE Returned(Or(Or(Or(Shl(universe, 56), auth_server.val),
                                   Shl(account_id.val, 1)),
                                Lit(<<7, 6, 5, 6, 1, 1, 9, 7, 9, 6, 0, 2, 6, 5, 7, 2, 8>>, 4)))

\* steamid3_to_steamid64 setting the instance to 1, the default of SteamID::new
steamid3_to_steamid64_instance_1(steamid3) ==
    LET captures == captures_steamid3(steamid3)
    IN IF ~captures.some THEN Panicked
       ELSE LET type_char == unwrap_or(parse_char(captures.val[1]), "I")
                account_type == From(to_int(from_char(type_char)), 4)
                universe == unwrap_or(parse_uint(captures.val[2], 4), N(1, 4))
                account_id == parse_uint(captures.val[3], 4)
            IN IF ~account_id.ok THEN Panicked
               ELSE Returned(Or(Or(Or(Shl(account_type, 52), Shl(universe, 56)),
                                   Shl(N(1, 4), 32)),
                                account_id.val))

steamid3_to_steamid64(steamid3) ==
    LET captures == captures_steamid3(steamid3)
    IN IF ~captures.some THEN Panicked
       ELSE LET type_char == unwrap_or(parse_char(captures.val[1]), "I")
                account_type == From(to_int(from_char(type_char)), 4)
                universe == unwrap_or(parse_uint(captures.val[2], 4), N(1, 4))
                account_id == parse_uint(captures.val[3], 4)
            IN IF ~account_id.ok THEN Panicked
               ELSE Returned(Or(Or(Shl(account_type, 52), Shl(universe, 56)),
                                account_id.val))

\* Returned(Ok(u64)), Returned(Err(message)), or Panicked
string_to_steamid64(input) ==
    LET type == string_to_steamid_type(input)
    IN IF ~type.ok THEN Returned(Err(type.err))
       ELSE LET v == CASE type.val = "SteamID64" ->
                            (IF parse_uint(input, 4).ok
                             THEN Returned(parse_uint(input, 4).val) ELSE Panicked)
                       [] type.val = "SteamID2" -> steamid2_to_steamid64(input)
                       [] type.val = "SteamID3" -> steamid3_to_steamid64(input)
            IN IF v.panicked THEN Panicked ELSE Returned(Ok(v.val))

(***************************************************************************)
(* struct SteamID                                                          *)
(***************************************************************************)
SteamID_new ==
    [account_id |-> N(0, 2), account_instance |-> N(1, 2),
     account_type |-> N(1, 1), account_universe |-> N(1, 1)]

\* set_steamid64 reading the universe one bit too high
set_steamid64_universe_57(self, x) ==
    [account_id |->
         unwrap_or(TryFrom(And(x, Lit(<<4, 2, 9, 4, 9, 6, 7, 2, 9, 5>>, 4)), 32), N(1, 2)),
     account_instance |->
         unwrap_or(TryFrom(And(Shr(x, 32), Lit(<<1, 0, 4, 8, 5, 7, 5>>, 4)), 32), N(1, 2)),
     account_type |->
         unwrap_or(TryFrom(And(Shr(x, 52), N(15, 4)), 8), N(1, 1)),
     account_universe |->
         unwrap_or(TryFrom(And(Shr(x, 57), N(15, 4)), 8), N(1, 1))]

set_steamid64(self, x) ==
    [account_id |->
         unwrap_or(TryFrom(And(x, Lit(<<4, 2, 9, 4, 9, 6, 7, 2, 9, 5>>, 4)), 32), N(1, 2)),
     account_instance |->
         unwrap_or(TryFrom(And(Shr(x, 32), Lit(<<1, 0, 4, 8, 5, 7, 5>>, 4)), 32), N(1, 2)),
     account_type |->
         unwrap_or(TryFrom(And(Shr(x, 52), N(15, 4)), 8), N(1, 1)),
     account_universe |->
         unwrap_or(TryFrom(And(Shr(x, 56), N(15, 4)), 8), N(1, 1))]

get_steamid64(self) ==
    Or(Or(Or(From(self.account_id, 4),
             Shl(From(self.account_instance, 4), 32)),
          Shl(From(self.account_type, 4), 52)),
       Shl(From(self.account_universe, 4), 56))

\* get_steamid2 without the shift that drops the auth bit
get_steamid2_no_shift(self) ==
    LET authserver == And(self.account_id, N(1, 2))
        accountid == And(self.account_id, Lit(<<2, 1, 4, 7, 4, 8, 3, 6, 4, 7>>, 2))
    IN STEAM_ \o to_string(self.account_universe) \o <<":">>
          \o to_string(authserver) \o <<":">> \o to_string(accountid)

get_steamid2(self) ==
    LET authserver == And(self.account_id, N(1, 2))
        accountid == And(Shr(self.account_id, 1),
                         Lit(<<2, 1, 4, 7, 4, 8, 3, 6, 4, 7>>, 2))
    IN STEAM_ \o to_string(self.account_universe) \o <<":">>
          \o to_string(authserver) \o <<":">> \o to_string(accountid)

get_steamid3(self) ==
    LET type_char == account_type_to_char(self.account_type, Some(self.account_instance))
    IN <<"[", type_char, ":">> \o to_string(self.account_universe) \o <<":">>
          \o to_string(self.account_id) \o <<"]">>

(***************************************************************************)
(* fn main: the command line and the loop over its items.                  *)
(* args is env::args(): args[1] is the program's name (Rust's args[0]),    *)
(* so Rust's args[i] is args[i + 1] here.  stdout is the sequence of lines *)
(* printed, each the literal text of its println! and the formatted        *)
(* argument.                                                               *)
(***************************************************************************)
Line(text, formatted) == <<text, formatted>>

\* {:?} of a SteamIDFormat
Debug(format) ==
    CASE format = "SteamID64" -> <<"S", "t", "e", "a", "m", "I", "D", "6", "4">>
      [] format = "SteamID2" -> <<"S", "t", "e", "a", "m", "I", "D", "2">>
      [] format = "SteamID3" -> <<"S", "t", "e", "a", "m", "I", "D", "3">>

\* the three println! of a branch
report(steamid) ==
    <<Line("steamID64:\t", to_string(get_steamid64(steamid))),
      Line("steamID:  \t", get_steamid2(steamid)),
      Line("steamID3: \t", get_steamid3(steamid))>>

\* One pass of the loop body over the item input: what it prints, the locals it
\* leaves, and whether it panicked (an unwrap or expect on Err) on the way.
loop_body(input) ==
    LET type == string_to_steamid_type(input)
    IN IF ~type.ok
       THEN [steam_type |-> type, steamid_64 |-> None, steamid_object |-> None,
             lines |-> <<Line("Unable to interpret ", input), Line("", <<>>)>>,
             panicked |-> FALSE]
       ELSE LET converted ==
                    CASE type.val = "SteamID64" ->
                             (IF parse_uint(input, 4).ok
                              THEN Returned(parse_uint(input, 4).val) ELSE Panicked)
                      [] type.val = "SteamID2" -> steamid2_to_steamid64(input)
                      [] type.val = "SteamID3" -> steamid3_to_steamid64(input)
                interpreting == <<Line("Interpreting as ", Debug(type.val))>>
            IN IF converted.panicked
               THEN [steam_type |-> type, steamid_64 |-> None,
                     steamid_object |-> Some(SteamID_new),
                     lines |-> interpreting, panicked |-> TRUE]
               ELSE LET steamid == set_steamid64(SteamID_new, converted.val)
                    IN [steam_type |-> type, steamid_64 |-> Some(converted.val),
                        steamid_object |-> Some(steamid),
                        lines |-> interpreting \o report(steamid) \o <<Line("", <<>>)>>,
                        panicked |-> FALSE]

(***************************************************************************)
(* The command lines explored.                                             *)
(***************************************************************************)
MaxItems == 3

Program == <<"r", "u", "s", "t", "e", "a", "m", "i", "d">>

Decimal(ds) == [k \in 1..Len(ds) |-> AsciiDigits[ds[k] + 1]]

\* the packed value of the fields universe (8 bits), type (4), instance (20)
\* and of the two halves of account_id
Packed(universe, type, instance, id_hi, id_lo) ==
    <<id_lo, id_hi, instance % Limb, (instance \div Limb) + type * 16 + universe * 256>>

SteamID64Values ==
    { Packed(1, 1, 1, 0, 0), Packed(0, 1, 1, 0, 5), Packed(16, 1, 1, 0, 7),
      Packed(35, 8, 2 * 4096, 0, 1), Packed(255, 15, 2^20 - 1, 65535, 65535),
      Packed(1, 8, 1 * 4096, 0, 9), Packed(1, 8, 2 * 4096 + 2748, 0, 9),
      Packed(1, 8, 4 * 4096, 0, 9), Packed(1, 8, 3 * 4096 + 1, 0, 9),
      Packed(1, 8, 1, 0, 9), Packed(1, 8, 0, 0, 9), Packed(1, 8, 255 * 4096 + 4095, 0, 9),
      Packed(1, 8, 18 * 4096, 0, 9), Packed(1, 9, 1, 0, 3), Packed(3, 9, 0, 32768, 1),
      Packed(1, 10, 0, 0, 3), Packed(2, 7, 0, 1, 0), Packed(1, 11, 0, 0, 1),
      Packed(1, 0, 1, 0, 2), Packed(4, 3, 1, 65535, 65534), Packed(0, 0, 0, 0, 0) }

TwoTo64 == Decimal(<<1, 8, 4, 4, 6, 7, 4, 4, 0, 7, 3, 7, 0, 9, 5, 5, 1, 6, 1, 6>>)

DigitStrings ==
    { to_string(x) : x \in SteamID64Values }
    \cup { TwoTo64,
           Decimal(<<9, 9, 9, 9, 9, 9, 9, 9, 9, 9, 9, 9, 9, 9, 9, 9, 9, 9, 9, 9>>),
           Decimal(<<0, 0, 1, 8, 4, 4, 6, 7, 4, 4, 0, 7, 3, 7, 0, 9, 5, 5, 1, 6, 1, 5>>),
           Decimal(<<0, 0, 0, 0, 0, 0, 0, 0, 0, 0, 0, 0, 0, 0, 0, 0, 0, 0, 0, 0, 0, 7>>),
           Decimal(<<0, 0, 1, 8, 4, 4, 6, 7, 4, 4, 0, 7, 3, 7, 0, 9, 5, 5, 1, 6, 1, 6>>) }

ID2(u, a, n) == STEAM_ \o <<u, ":", a, ":">> \o n

ID3(c, u, n) == <<"[", c, ":", u, ":">> \o n \o <<"]">>

SteamID2Strings ==
    { ID2("0", "0", Decimal(<<1>>)), ID2("1", "1", Decimal(<<1>>)),
      ID2("2", "0", Decimal(<<5>>)), ID2("3", "1", Decimal(<<2, 1, 4, 7, 4, 8, 3, 6, 4, 7>>)),
      ID2("4", "0", Decimal(<<0>>)), ID2("5", "1", Decimal(<<0, 0, 7>>)),
      ID2("0", "1", Decimal(<<2, 1, 4, 7, 4, 8, 3, 6, 4, 7>>)),
      ID2("1", "0", Decimal(<<2, 1, 4, 7, 4, 8, 3, 6, 4, 8>>)),
      ID2("1", "0", Decimal(<<2, 2, 5, 1, 7, 9, 9, 8, 1, 3, 6, 8, 5, 2, 4, 8>>)),
      ID2("0", "1", Decimal(<<7, 2, 0, 5, 7, 5, 9, 4, 0, 3, 7, 9, 2, 7, 9, 3, 6>>)),
      ID2("1", "0", Decimal(<<9, 2, 2, 3, 3, 7, 2, 0, 3, 6, 8, 5, 4, 7, 7, 5, 8, 0, 8>>)),
      ID2("0", "0", TwoTo64), ID2("1", "0", <<"4", ArabicIndicThree>>) }

SteamID3Strings ==
    { ID3(c, "1", Decimal(<<1>>)) :
          c \in {"I", "U", "M", "G", "A", "P", "C", "g", "c", "T", "L", "a", "x", "9", ":"} }
    \cup { ID3("I", "0", Decimal(<<5>>)), ID3("L", "0", Decimal(<<0, 9>>)),
           ID3("g", "1", Decimal(<<4, 2, 9, 4, 9, 6, 7, 2, 9, 5>>)),
           ID3("U", "1", Decimal(<<4, 2, 9, 4, 9, 6, 7, 2, 9, 6>>)),
           ID3("I", "1", Decimal(<<4, 0, 5, 3, 2, 3, 9, 6, 6, 4, 6, 3, 3, 4, 4, 6, 4>>)),
           ID3("I", "0", Decimal(<<4, 5, 0, 3, 5, 9, 9, 6, 2, 7, 3, 7, 0, 4, 9, 5>>)),
           ID3("U", "0", Decimal(<<7, 2, 0, 5, 7, 5, 9, 4, 0, 3, 7, 9, 2, 7, 9, 3, 6>>)),
           ID3("U", "1", TwoTo64), ID3("U", "1", <<ArabicIndicThree>>) }

OtherStrings ==
    { <<>>, <<"+", "1">>, <<"+">>, <<"-", "1">>, <<"1", "a">>, <<ArabicIndicThree>>,
      <<"n", "o", "t", "-", "a", "-", "s", "t", "e", "a", "m", "i", "d">>,
      ID2("6", "0", Decimal(<<1>>)), ID2("1", "2", Decimal(<<1>>)), ID2("1", "0", <<>>),
      ID2("1", "0", <<"1", "x">>), <<" ">> \o ID2("1", "0", Decimal(<<1>>)),
      ID3("U", "2", Decimal(<<1>>)), ID3("U", "1", <<>>), ID3("\n", "1", Decimal(<<1>>)),
      <<"[", "U", ":", "1", ":", "1">>, <<"[", "U", "U", ":", "1", ":", "1", "]">> }

Inputs == DigitStrings \cup SteamID2Strings \cup SteamID3Strings \cup OtherStrings

\* the items of the command lines of several items
BatchInputs ==
    { to_string(Packed(1, 1, 1, 0, 0)), ID2("0", "0", Decimal(<<1>>)),
      <<"n", "o", "p", "e">>, ID2("0", "0", TwoTo64), ID3("U", "1", TwoTo64),
      to_string(Packed(1, 9, 1, 0, 3)), ID3("I", "1", Decimal(<<3>>)) }

RECURSIVE Batches(_)
Batches(n) ==
    IF n = 0 THEN {<<>>}
    ELSE {b \o <<s>> : b \in Batches(n - 1), s \in BatchInputs}

CommandLines ==
    {<<Program>>} \cup {<<Program, s>> : s \in Inputs}
    \cup UNION {{<<Program>> \o b : b \in Batches(n)} : n \in 2..MaxItems}

(***************************************************************************)
(* The state machine.                                                      *)
(***************************************************************************)
Init ==
    /\ args \in CommandLines
    /\ i = 0
    /\ pc = "start"
    /\ stdout = <<>>
    /\ steam_type = None
    /\ steamid_64 = None
    /\ steamid_object = None

\* if args.len() < 2 { println!("No IDs provided!"); std::process::exit(-1); }
NoIDsProvided ==
    /\ pc = "start"
    /\ Len(args) < 2
    /\ stdout' = stdout \o <<Line("No IDs provided!", <<>>)>>
    /\ pc' = "exited"
    /\ UNCHANGED <<args, i, steam_type, steamid_64, steamid_object>>

\* for i in 1..args.len(): entering the loop
EnterLoop ==
    /\ pc = "start"
    /\ Len(args) >= 2
    /\ i' = 1
    /\ pc' = "loop"
    /\ UNCHANGED <<args, stdout, steam_type, steamid_64, steamid_object>>

\* loop_body over the items explored, computed once
Items == Inputs \cup BatchInputs

PassOf == [input \in Items |-> loop_body(input)]

\* one pass of the loop body over args[i]: its prints, its locals, and the panic
\* that ends the process or the step to the next item
Pass(body) ==
    /\ stdout' = stdout \o body.lines
    /\ steam_type' = Some(body.steam_type)
    /\ steamid_64' = body.steamid_64
    /\ steamid_object' = body.steamid_object
    /\ pc' = IF body.panicked THEN "panicked" ELSE "loop"
    /\ i' = IF body.panicked THEN i ELSE i + 1
    /\ UNCHANGED args

\* the pass is in the branch of this format
Detected(format) ==
    /\ pc = "loop"
    /\ i < Len(args)
    /\ PassOf[args[i + 1]].steam_type.ok
    /\ PassOf[args[i + 1]].steam_type.val = format

InterpretSteamID64 ==
    /\ Detected("SteamID64")
    /\ Pass(PassOf[args[i + 1]])

InterpretSteamID2 ==
    /\ Detected("SteamID2")
    /\ Pass(PassOf[args[i + 1]])

InterpretSteamID3 ==
    /\ Detected("SteamID3")
    /\ Pass(PassOf[args[i + 1]])

\* the unrecognized item ending the run after its notice
UnableToInterpret_exits ==
    /\ pc = "loop"
    /\ i < Len(args)
    /\ ~PassOf[args[i + 1]].steam_type.ok
    /\ stdout' = stdout \o PassOf[args[i + 1]].lines
    /\ pc' = "exited"
    /\ UNCHANGED <<args, i, steam_type, steamid_64, steamid_object>>

UnableToInterpret ==
    /\ pc = "loop"
    /\ i < Len(args)
    /\ ~PassOf[args[i + 1]].steam_type.ok
    /\ Pass(PassOf[args[i + 1]])

\* the range 1..args.len() is exhausted and main returns
ExitLoop ==
    /\ pc = "loop"
    /\ i = Len(args)
    /\ pc' = "done"
    /\ UNCHANGED <<args, i, stdout, steam_type, steamid_64, steamid_object>>

Next ==
    \/ NoIDsProvided
    \/ EnterLoop
    \/ InterpretSteamID64
    \/ InterpretSteamID2
    \/ InterpretSteamID3
    \/ UnableToInterpret
    \/ ExitLoop

Spec == Init /\ [][Next]_vars

\* main runs to its end: a sequential program does not stop between statements
FairSpec == Spec /\ WF_vars(Next)

(***************************************************************************)
(* What the properties below read from a state.                            *)
(***************************************************************************)
\* a pass of the loop body has run
Passed == steam_type.some

\* the item of the last pass (a panic leaves i on it)
LastItem == IF pc = "panicked" THEN args[i + 1] ELSE args[i]

LastFormat == IF steam_type.val.ok THEN steam_type.val.val ELSE "none"

\* the last pass decoded a packed value and printed its three lines
Reported == Passed /\ steamid_64.some /\ pc # "panicked"

\* the text after the tab of the three lines of the last report
PrintedID64 == stdout[Len(stdout) - 3][2]
PrintedID2 == stdout[Len(stdout) - 2][2]
PrintedID3 == stdout[Len(stdout) - 1][2]

\* the fields of a packed value, by the layout of main.rs lines 8-29
FieldAccountId(x) == <<x[1], x[2]>>
FieldInstance(x) == x[3] + (x[4] % 16) * Limb
FieldType(x) == (x[4] \div 16) % 16
FieldUniverse(x) == x[4] \div 256

\* what each item prints when it is the only item of the command line
RECURSIVE AloneOutputs(_)
AloneOutputs(items) ==
    IF items = <<>> THEN <<>>
    ELSE loop_body(Head(items)).lines \o AloneOutputs(Tail(items))

\* decimal text read and written with plain integers, for values below 2^31
RECURSIVE StripZeros(_)
StripZeros(s) == IF Len(s) > 1 /\ s[1] = "0" THEN StripZeros(Tail(s)) ELSE s

RECURSIVE DigitsLeq(_, _)
DigitsLeq(a, b) ==
    IF a = <<>> THEN TRUE
    ELSE IF DigitVal(a[1]) # DigitVal(b[1]) THEN DigitVal(a[1]) < DigitVal(b[1])
    ELSE DigitsLeq(Tail(a), Tail(b))

\* the number written by the ASCII digits s is at most the one written by max
AtMost(s, max) ==
    LET d == StripZeros(s)
    IN Len(d) < Len(max) \/ (Len(d) = Len(max) /\ DigitsLeq(d, max))

AllAsciiDigits(s) == s # <<>> /\ \A k \in 1..Len(s) : IsAsciiDigit(s[k])

RECURSIVE NatOf(_)
NatOf(s) == IF s = <<>> THEN 0 ELSE NatOf(SubSeq(s, 1, Len(s) - 1)) * 10 + DigitVal(s[Len(s)])

RECURSIVE NatText(_)
NatText(n) ==
    IF n < 10 THEN <<AsciiDigits[n + 1]>>
    ELSE NatText(n \div 10) \o <<AsciiDigits[(n % 10) + 1]>>

\* the code of an ID3 type character (section 3 of the specification)
TypeCode(c) ==
    LET codes == ("I" :> 0) @@ ("U" :> 1) @@ ("M" :> 2) @@ ("G" :> 3) @@ ("A" :> 4)
                 @@ ("P" :> 5) @@ ("C" :> 6) @@ ("g" :> 7) @@ ("c" :> 8) @@ ("T" :> 8)
                 @@ ("L" :> 8) @@ ("a" :> 10)
    IN IF c \in DOMAIN codes THEN codes[c] ELSE 0

\* the last pass parsed an item of the ID2 (ID3) grammar into steamid_64
ParsedID2 == Passed /\ LastFormat = "SteamID2" /\ steamid_64.some
ParsedID3 == Passed /\ LastFormat = "SteamID3" /\ steamid_64.some
GroupsID2 == captures_steamid2(LastItem).val
GroupsID3 == captures_steamid3(LastItem).val

(***************************************************************************)
(* C1.  Round trip through the packed form: every packed value x whose     *)
(* 8-bit universe field (bits 56-63) is not 0, decoded by set_steamid64    *)
(* and encoded again by get_steamid64, comes back as x.                    *)
(* Violated: the decoder keeps 4 bits of the universe.                     *)
(***************************************************************************)
C1_RoundTrip ==
    (Passed /\ steamid_64.some /\ FieldUniverse(steamid_64.val) # 0)
        => get_steamid64(steamid_object.val) = steamid_64.val

(***************************************************************************)
(* C2.  Batch isolation on numeric overflow: an item that matches the ID2  *)
(* or ID3 grammar but whose account-id group does not parse as a u64 fails *)
(* alone; when the run has ended, every item of the command line has       *)
(* printed what it prints when processed alone, in order.                  *)
(* Violated: the unwrap panics and the items after it are never processed. *)
(***************************************************************************)
C2_BatchIsolation ==
    pc \in {"done", "panicked"} => stdout = AloneOutputs(Tail(args))

(***************************************************************************)
(* C3 as stated.  Every non-empty string of decimal digits is classified   *)
(* SteamID64, whatever its length or value.                                *)
(***************************************************************************)
C3_DigitsAlwaysID64 ==
    (Passed /\ AllAsciiDigits(LastItem)) => LastFormat = "SteamID64"

(***************************************************************************)
(* C3 amended.  A non-empty string of ASCII decimal digits is classified   *)
(* SteamID64 when its value is at most 2^64 - 1 (leading zeros do not      *)
(* count) and is unrecognized when its value is larger; it is never        *)
(* classified SteamID2 or SteamID3.                                        *)
(***************************************************************************)
MaxU64Text == Decimal(<<1, 8, 4, 4, 6, 7, 4, 4, 0, 7, 3, 7, 0, 9, 5, 5, 1, 6, 1, 5>>)

C3_DigitsID64WhenInRange ==
    (Passed /\ AllAsciiDigits(LastItem))
        => IF AtMost(LastItem, MaxU64Text)
           THEN LastFormat = "SteamID64"
           ELSE ~steam_type.val.ok

C3_Witness ==
    /\ Passed /\ AllAsciiDigits(LastItem)
    /\ Len(LastItem) > 20
    /\ ~AtMost(LastItem, MaxU64Text)
    /\ ~steam_type.val.ok
    /\ pc = "done"

(***************************************************************************)
(* C4 as stated.  The packed value steamid2_to_steamid64 returns for an    *)
(* ID2 string has account_type field 1 and universe field 1.               *)
(***************************************************************************)
C4_ID2AlwaysIndividualPublic ==
    ParsedID2 => /\ FieldType(steamid_64.val) = 1
                 /\ FieldUniverse(steamid_64.val) = 1

(***************************************************************************)
(* C4 amended.  For an ID2 string STEAM_u:a:n the packed value has         *)
(* account_type field 1 OR bits 51-54 of n, and universe field             *)
(* u OR 1 OR bits 55-62 of n: for n < 2^51 the type is 1 and the universe  *)
(* is u OR 1, which is 1 only for u = 0 and u = 1.                         *)
(***************************************************************************)
C4_ID2Fields ==
    ParsedID2 =>
        LET u == DigitVal(GroupsID2[1][1])
            n == parse_uint(GroupsID2[3], 4).val
        IN /\ FieldType(steamid_64.val) = BitOr(1, (n[4] \div 8) % 16)
           /\ FieldUniverse(steamid_64.val) = BitOr(BitOr(u, 1), (n[4] \div 128) % 256)
           /\ (n[4] < 8 => /\ FieldType(steamid_64.val) = 1
                           /\ FieldUniverse(steamid_64.val) = <<1, 1, 3, 3, 5, 5>>[u + 1])

C4_Witness ==
    /\ ParsedID2
    /\ GroupsID2[1] = <<"2">>
    /\ FieldType(steamid_64.val) = 1
    /\ FieldUniverse(steamid_64.val) = 3

(***************************************************************************)
(* C5 as stated.  The packed value steamid3_to_steamid64 returns for an    *)
(* ID3 string [c:u:n] has account_type field the code of c, universe       *)
(* field u, account_id field n and instance field 0.                       *)
(***************************************************************************)
ID3FieldsPlaced ==
    LET n == parse_uint(GroupsID3[3], 4).val
    IN /\ FieldType(steamid_64.val) = TypeCode(GroupsID3[1][1])
       /\ FieldUniverse(steamid_64.val) = DigitVal(GroupsID3[2][1])
       /\ From(FieldAccountId(steamid_64.val), 4) = n
       /\ FieldInstance(steamid_64.val) = 0

C5_ID3Fields == ParsedID3 => ID3FieldsPlaced

(***************************************************************************)
(* C5 amended.  The same placement, for the ID3 strings whose n is below   *)
(* 2^32 (an account_id that fits its 32-bit field).                        *)
(***************************************************************************)
C5_ID3FieldsWhenIdFits ==
    (ParsedID3 /\ parse_uint(GroupsID3[3], 4).val[3] = 0
               /\ parse_uint(GroupsID3[3], 4).val[4] = 0)
        => ID3FieldsPlaced

C5_Witness ==
    /\ ParsedID3
    /\ GroupsID3[1] = <<"g">>
    /\ steamid_64.val = <<65535, 65535, 0, 7 * 16 + 256>>

(***************************************************************************)
(* C6.  Unrecognized items are not fatal: for an item no grammar matches,  *)
(* string_to_steamid64 returns the error without panicking, the loop       *)
(* prints the one notice for it (and the blank line that ends every pass)  *)
(* and goes on to the next item; and a command line of at least one item,  *)
(* none of which panics, ends with every item visited once, in order.      *)
(***************************************************************************)
Unrecognized(item) == ~string_to_steamid_type(item).ok

NoItemAborts == \A k \in 2..Len(args) : ~loop_body(args[k]).panicked

C6_UnrecognizedNonFatal ==
    /\ [][(pc = "loop" /\ i < Len(args) /\ Unrecognized(args[i + 1]))
            => /\ string_to_steamid64(args[i + 1])
                    = Returned(Err("Unable to parse to any SteamID Format."))
               /\ pc' = "loop"
               /\ i' = i + 1
               /\ stdout' = stdout \o <<Line("Unable to interpret ", args[i + 1]),
                                        Line("", <<>>)>>]_vars
    /\ (pc = "start" /\ Len(args) >= 2 /\ NoItemAborts)
           ~> (pc = "done" /\ i = Len(args) /\ stdout = AloneOutputs(Tail(args)))

C6_Witness ==
    /\ pc = "done"
    /\ Len(args) >= 4
    /\ Unrecognized(args[2])
    /\ ~Unrecognized(args[3])
    /\ Unrecognized(args[4])
    /\ stdout = AloneOutputs(Tail(args))

(***************************************************************************)
(* C7.  Chat rendering: for an identifier of account_type 8 the type       *)
(* character of its steamID3 is 'L' when bits 12-19 of the instance are 2, *)
(* 'T' when they are 1 and 'c' otherwise; the low 12 bits do not count.    *)
(***************************************************************************)
InstanceOf(steamid) == steamid.account_instance[1] + steamid.account_instance[2] * Limb

C7_ChatTypeChar ==
    (Reported /\ steamid_object.val.account_type = <<8>>)
        => LET flags == (InstanceOf(steamid_object.val) \div 4096) % 256
           IN PrintedID3[2] = IF flags = 2 THEN "L" ELSE IF flags = 1 THEN "T" ELSE "c"

C7_Witness ==
    /\ Reported
    /\ steamid_object.val.account_type = <<8>>
    /\ InstanceOf(steamid_object.val) \div 4096 = 2
    /\ InstanceOf(steamid_object.val) % 4096 # 0
    /\ PrintedID3[2] = "L"

(***************************************************************************)
(* C8 as stated.  An identifier of account_type 9 is rendered with type    *)
(* character 'I', and every ID3 string of type character 'I' parses to a   *)
(* packed value of account_type field 0.                                   *)
(***************************************************************************)
ConsoleUserRendersI ==
    (Reported /\ steamid_object.val.account_type = <<9>>) => PrintedID3[2] = "I"

C8_ConsoleUserCollapse ==
    /\ ConsoleUserRendersI
    /\ (ParsedID3 /\ GroupsID3[1] = <<"I">>) => FieldType(steamid_64.val) = 0

(***************************************************************************)
(* C8 amended.  An identifier of account_type 9 is rendered with type      *)
(* character 'I', and every ID3 string of type character 'I' whose account *)
(* number is below 2^52 parses to a packed value of account_type field 0.  *)
(***************************************************************************)
C8_ConsoleUserCollapseBelow2To52 ==
    /\ ConsoleUserRendersI
    /\ (ParsedID3 /\ GroupsID3[1] = <<"I">> /\ parse_uint(GroupsID3[3], 4).val[4] < 16)
           => FieldType(steamid_64.val) = 0

\* the steamID3 printed for a ConsoleUser identifier, fed back as the next item
C8_Witness ==
    /\ pc = "done"
    /\ Len(args) = 3
    /\ loop_body(args[2]).steamid_64.some
    /\ loop_body(args[2]).steamid_object.val.account_type = <<9>>
    /\ args[3] = loop_body(args[2]).lines[4][2]
    /\ args[3][2] = "I"
    /\ ParsedID3
    /\ FieldType(steamid_64.val) = 0

(***************************************************************************)
(* C9.  ID2 in, ID2 out: for an ID2 item STEAM_u:a:n with n < 2^31 the     *)
(* steamID line printed is STEAM_v:a:n with v = u OR 1 (1, 1, 3, 3, 5, 5   *)
(* for u = 0..5), n written without leading zeros.                         *)
(***************************************************************************)
C9_ID2Rendering ==
    (ParsedID2 /\ pc # "panicked"
        /\ AtMost(GroupsID2[3], Decimal(<<2, 1, 4, 7, 4, 8, 3, 6, 4, 7>>)))
        => LET u == DigitVal(GroupsID2[1][1])
               v == <<1, 1, 3, 3, 5, 5>>[u + 1]
           IN /\ PrintedID2 = STEAM_ \o NatText(v) \o <<":">> \o GroupsID2[2] \o <<":">>
                                 \o NatText(NatOf(GroupsID2[3]))
              /\ (v = u) = (u \in {1, 3, 5})

C9_Witness ==
    /\ ParsedID2 /\ pc # "panicked"
    /\ LastItem = ID2("4", "0", Decimal(<<0>>))
    /\ PrintedID2 = ID2("5", "0", Decimal(<<0>>))

(***************************************************************************)
(* C10.  Normalisation is idempotent: the steamID64 the tool prints for    *)
(* a packed value, fed back as an item, is classified SteamID64, decodes   *)
(* and encodes to itself, and prints the same three lines.                 *)
(***************************************************************************)
C10_NormalisationIdempotent ==
    Reported =>
        LET again == loop_body(PrintedID64)
        IN /\ again.steam_type = Ok("SteamID64")
           /\ ~again.panicked
           /\ get_steamid64(again.steamid_object.val) = again.steamid_64.val
           /\ to_string(again.steamid_64.val) = PrintedID64
           /\ again.lines = <<Line("Interpreting as ", Debug("SteamID64"))>>
                               \o SubSeq(stdout, Len(stdout) - 3, Len(stdout))

\* a value the decoder changes: what is printed is not what was read
C10_Witness ==
    /\ Reported
    /\ get_steamid64(steamid_object.val) # steamid_64.val
    /\ loop_body(PrintedID64).lines[2][2] = PrintedID64

====
